---- MODULE Spec2Model ----
(***************************************************************************)
(* Model of the networked editor (frontend-web/src/App.vue): the link      *)
(* state machine, the load/save/poll client, the text watcher, the leave   *)
(* warning, the page height and the zoom controls.                         *)
(*                                                                         *)
(* The JavaScript host is single threaded.  A task (a DOM event, a timer,  *)
(* a fetch continuation) runs to completion; Vue's watcher job for `text`  *)
(* is flushed in a microtask, so it runs before the next task starts; a    *)
(* modal alert() blocks the thread until the user dismisses it.            *)
(***************************************************************************)
EXTENDS Integers, Sequences, FiniteSets, TLC

VARIABLES
    text,              \* ref text                    (App.vue:7)
    title,             \* ref title, <<>> is null     (App.vue:8)
    saveState,         \* ref saveState               (App.vue:12)
    lastSavedContent,  \* ref lastSavedContent        (App.vue:34)
    isLoading,         \* ref isLoading               (App.vue:35)
    watchPending,      \* the watch(text) job is queued for the next flush
    contentReqs,       \* /api/content requests in flight, in issue order
    statusReqs,        \* number of /api/status requests in flight
    timers,            \* number of pending setTimeout(checkLink) timers
    mounted,           \* the onMounted hooks have run
    alertOpen,         \* the modal alert() of handleSaveFile is on screen
    ev,                \* the handler step that ran last (observation log)
    lsmCalls,          \* calls applied to the bare link state machine
    syncPending,       \* a deferred syncPageHeight() call is queued
    pageHeightPx,      \* ref pageHeightPx            (App.vue:124)
    zoomLevel,         \* ref zoomLevel, in thousandths (App.vue:144)
    zoomTrail,         \* the most recent zoom calls, oldest first
    saHasInit,         \* standalone variant: ref hasInit        (part_002:14)
    saText,            \* standalone variant: ref text, <<>> is null (part_002:8)
    saTitle,           \* standalone variant: ref title, <<>> is null (part_002:9)
    saEv               \* standalone variant: the handler that ran last

pageVars == <<syncPending, pageHeightPx>>
zoomVars == <<zoomLevel, zoomTrail>>
geomVars == <<pageVars, zoomVars>>
saVars == <<saHasInit, saText, saTitle, saEv>>

vars == <<text, title, saveState, lastSavedContent, isLoading, watchPending,
          contentReqs, statusReqs, timers, mounted, alertOpen, ev, lsmCalls,
          syncPending, pageHeightPx, zoomLevel, zoomTrail,
          saHasInit, saText, saTitle, saEv>>

webVars == <<text, title, saveState, lastSavedContent, isLoading,
             watchPending, contentReqs, statusReqs, timers, mounted,
             alertOpen, ev, lsmCalls, geomVars>>

(***************************************************************************)
(* Input domains                                                           *)
(***************************************************************************)
Contents == {"", "a", "b"}
Titles == {"doc", "memo"}
ResponseData == [content : Contents, title : Titles, saved : BOOLEAN]
ContentOutcomes == {"ok", "notok", "reject", "badjson"}
StatusOutcomes == {"ok", "notok", "reject"}
MaxCalls == 4

NoData == [content |-> "", title |-> "", saved |-> FALSE]
NoPre == [title |-> <<>>, last |-> ""]
Ev(op, caller, data, load, pre) ==
    [op |-> op, caller |-> caller, data |-> data, load |-> load, pre |-> pre]
EvPlain(op) == Ev(op, "", NoData, "none", NoPre)

RemoveAt(s, i) == SubSeq(s, 1, i - 1) \o SubSeq(s, i + 1, Len(s))

(***************************************************************************)
(* Link state machine (App.vue:10-32)                                      *)
(***************************************************************************)
isLinked(s) == s.type = "linked"
isDirty(s) == s.type = "linked" /\ s.dirty

markLinked(dirty) == [type |-> "linked", dirty |-> dirty]
markUnlinked == [type |-> "unlinked"]

markDirty_unguarded(s) == [type |-> s.type, dirty |-> TRUE]
markDirty(s) == IF s.type = "linked" THEN [s EXCEPT !.dirty = TRUE] ELSE s

markSaved_noop(s) == s
markSaved(s) == IF s.type = "linked" THEN [s EXCEPT !.dirty = FALSE] ELSE s

(***************************************************************************)
(* watch(text, cb) callback (App.vue:40-47)                                *)
(***************************************************************************)
watchText_neverClean(s, newText, last) ==
    IF ~isLinked(s) THEN s ELSE IF newText = last THEN s ELSE markDirty(s)
watchText_noDirty(s, newText, last) ==
    IF ~isLinked(s) THEN s ELSE IF newText = last THEN markSaved(s) ELSE s
watchText_relink(s, newText, last) ==
    IF newText = last THEN markLinked(FALSE) ELSE markLinked(TRUE)
watchText(s, newText, last) ==
    IF ~isLinked(s) THEN s
    ELSE IF newText = last THEN markSaved(s) ELSE markDirty(s)

(***************************************************************************)
(* shouldWarnOnLeave and confirmLeave (App.vue:18-22, 49-53); confirmLeave *)
(* yields whether the beforeunload event was prevented.                    *)
(***************************************************************************)
shouldWarnOnLeave_dirtyOnly(s) == s.type = "linked" /\ s.dirty
shouldWarnOnLeave(s) ==
    s.type = "unlinked" \/ (s.type = "linked" /\ s.dirty)

confirmLeave(s) == IF ~shouldWarnOnLeave(s) THEN FALSE ELSE TRUE

(***************************************************************************)
(* A task can start: no queued watcher job, no deferred syncPageHeight,    *)
(* no modal alert.                                                         *)
(***************************************************************************)
Idle == ~watchPending /\ ~alertOpen /\ ~syncPending

(***************************************************************************)
(* Requests: what fetch() was given, who awaits it, and the title and      *)
(* snapshot at the moment it was issued.                                   *)
(***************************************************************************)
NoBody == [content |-> "", title |-> <<>>]
Req(method, caller, sent) ==
    [method |-> method, caller |-> caller, sent |-> sent,
     pre |-> [title |-> title, last |-> lastSavedContent]]

(***************************************************************************)
(* loadContent (App.vue:63-87)                                             *)

(***************************************************************************)
(* The finally blocks of loadContent (App.vue:84-86) and of handleSaveFile *)
(* (App.vue:118-120): the value isLoading holds once the call that issued  *)
(* the request has run to its end, whether try or catch ran before.        *)
(***************************************************************************)
loadContentFinally_missing == TRUE
loadContentFinally == FALSE

handleSaveFileFinally == FALSE

(***************************************************************************)
loadContentGuard_off == FALSE
loadContentGuard == isLoading

\* The synchronous head of loadContent: the guard, the flag, the fetch.
loadContentBegin(caller) ==
    IF loadContentGuard
    THEN UNCHANGED <<isLoading, contentReqs>>
    ELSE /\ isLoading' = TRUE
         /\ contentReqs' = Append(contentReqs, Req("GET", caller, NoBody))

loadContentOk_keepLinked(data) ==
    [title |-> <<data.title>>, text |-> data.content,
     last |-> data.content, saveState |-> markLinked(FALSE)]
loadContentOk_append(data) ==
    [title |-> <<data.title>>, text |-> text \o data.content,
     last |-> data.content,
     saveState |-> IF data.saved THEN markLinked(FALSE) ELSE markUnlinked]
loadContentOk(data) ==
    [title |-> <<data.title>>, text |-> data.content,
     last |-> data.content,
     saveState |-> IF data.saved THEN markLinked(FALSE) ELSE markUnlinked]

loadContentFail_keepState == saveState
loadContentFail == markUnlinked

\* The catch block of loadContent logs to the console and opens no alert.
loadContentNotice_alert == TRUE
loadContentNotice == FALSE

(***************************************************************************)
(* handleSaveFile (App.vue:89-121)                                         *)
(***************************************************************************)
handleSaveFileGuard == isLoading

handleSaveFileOk_keepText(data) ==
    [text |-> text, title |-> <<data.title>>,
     last |-> data.content,
     saveState |-> IF data.saved THEN markLinked(FALSE) ELSE markUnlinked]
handleSaveFileOk_snapshotSent(data) ==
    [text |-> data.content, title |-> <<data.title>>,
     last |-> text,
     saveState |-> IF data.saved THEN markLinked(FALSE) ELSE markUnlinked]
handleSaveFileOk(data) ==
    [text |-> data.content, title |-> <<data.title>>,
     last |-> data.content,
     saveState |-> IF data.saved THEN markLinked(FALSE) ELSE markUnlinked]

handleSaveFileFail_silent == [saveState |-> markUnlinked, alert |-> FALSE]
handleSaveFileFail == [saveState |-> markUnlinked, alert |-> TRUE]

(***************************************************************************)
(* checkLink (App.vue:193-209)                                             *)
(***************************************************************************)
checkLinkShouldLoad_anyLinked == saveState.type = "linked"
checkLinkShouldLoad == saveState.type = "linked" /\ ~saveState.dirty

\* finally { setTimeout(checkLink, CHECK_LINK_MS) }; path names the way
\* the try block was left.
checkLinkReschedule_tryOnly(path) ==
    IF path \in {"notok", "reject"} THEN timers ELSE timers + 1
checkLinkReschedule_twice(path) ==
    IF path = "skip" THEN timers + 2 ELSE timers + 1
checkLinkReschedule(path) == timers + 1

\* Both failure paths of checkLink (App.vue:196-199, 204-205).
checkLinkFail_keepState == saveState
checkLinkFail == markUnlinked

(***************************************************************************)
(* Page geometry (App.vue:123-138).  ScrollHeight is what the browser      *)
(* reports as scrollHeight once the content is laid out with height auto:  *)
(* nothing for the empty buffer, one page for "a", two pages for "b".      *)
(***************************************************************************)
HEIGHT == 1123

Max(a, b) == IF a >= b THEN a ELSE b

ScrollHeight(c) ==
    IF c = "" THEN 0 ELSE IF c = "a" THEN HEIGHT ELSE 2 * HEIGHT

syncPageHeight_noFloor(scrollHeight) == scrollHeight
syncPageHeight_zoomed(scrollHeight) ==
    Max((scrollHeight * zoomLevel) \div 1000, HEIGHT)
syncPageHeight(scrollHeight) == Max(scrollHeight, HEIGHT)

\* the sync step's log entry: the measured height h, and as caller the
\* handler step whose continuation the sync is
EvSync(h) ==
    [op |-> "sync", caller |-> IF ev.op = "watch" THEN ev.caller ELSE ev.op,
     data |-> NoData, load |-> "none", pre |-> NoPre, h |-> h]

\* await nextTick() (App.vue:175): the promise resolves behind the
\* scheduler's flush, so the continuation runs once the queued watch(text)
\* job has run.
nextTickResolved_early == TRUE
nextTickResolved == ~watchPending

(***************************************************************************)
(* Zoom (App.vue:144-157), in thousandths: 1000 is a zoom factor of 1.     *)
(***************************************************************************)
ZoomInitial == 1000
ZoomMin == 500
ZoomMax == 3000
ZoomStep == 250
ZoomTrailLen == 3

ZoomDeltas == {-ZoomStep, ZoomStep}

Min(a, b) == IF a <= b THEN a ELSE b

\* Number(x.toFixed(digits)) for a non-negative x: the nearest multiple of
\* 10^-digits, halves upwards.
ToFixed(x, digits) ==
    LET unit == IF digits = 2 THEN 10 ELSE IF digits = 1 THEN 100 ELSE 1000
    IN  ((x + unit \div 2) \div unit) * unit

changeZoomLevel_noClamp(zoom, delta) == ToFixed(Max(0, zoom + delta), 2)
changeZoomLevel_oneDigit(zoom, delta) ==
    ToFixed(Max(ZoomMin, Min(ZoomMax, zoom + delta)), 1)
changeZoomLevel(zoom, delta) ==
    ToFixed(Max(ZoomMin, Min(ZoomMax, zoom + delta)), 2)

resetZoomLevel == ZoomInitial

(***************************************************************************)
(* Initial state: the refs as setup() creates them, before mount.          *)
(***************************************************************************)
Init ==
    /\ text = ""
    /\ title = <<>>
    /\ saveState = [type |-> "unlinked"]
    /\ lastSavedContent = ""
    /\ isLoading = FALSE
    /\ watchPending = FALSE
    /\ contentReqs = <<>>
    /\ statusReqs = 0
    /\ timers = 0
    /\ mounted = FALSE
    /\ alertOpen = FALSE
    /\ ev = EvPlain("init")
    /\ lsmCalls = <<>>
    /\ syncPending = FALSE
    /\ pageHeightPx = HEIGHT
    /\ zoomLevel = ZoomInitial
    /\ zoomTrail = <<>>
    /\ saHasInit = FALSE
    /\ saText = <<>>
    /\ saTitle = <<>>
    /\ saEv = [op |-> "init", name |-> <<>>]

(***************************************************************************)
(* onMounted hooks (App.vue:55-59, 211): loadContent() and checkLink()     *)
(* both run up to their first await.                                       *)
(***************************************************************************)
Mount ==
    /\ ~mounted /\ Idle
    /\ mounted' = TRUE
    /\ loadContentBegin("onMounted")
    /\ statusReqs' = statusReqs + 1
    /\ ev' = EvPlain("mount")
    /\ UNCHANGED <<text, title, saveState, lastSavedContent, watchPending,
                   timers, alertOpen, lsmCalls, geomVars, saVars>>

(***************************************************************************)
(* The user changes the textarea; v-model assigns text (App.vue:230) and   *)
(* handleInput awaits nextTick() before syncPageHeight (App.vue:174-178).  *)
(***************************************************************************)
UserEdit ==
    \E c \in Contents :
        /\ mounted /\ Idle
        /\ c # text
        /\ text' = c
        /\ watchPending' = TRUE
        /\ syncPending' = TRUE
        /\ ev' = EvPlain("edit")
        /\ UNCHANGED <<title, saveState, lastSavedContent, isLoading,
                       contentReqs, statusReqs, timers, mounted, alertOpen,
                       lsmCalls, pageHeightPx, zoomVars, saVars>>

(***************************************************************************)
(* The queued watch(text) job runs (App.vue:40-47).                        *)
(***************************************************************************)
WatchFlush ==
    /\ watchPending
    /\ saveState' = watchText(saveState, text, lastSavedContent)
    /\ watchPending' = FALSE
    /\ ev' = Ev("watch", ev.op, NoData, "none", NoPre)
    /\ UNCHANGED <<text, title, lastSavedContent, isLoading, contentReqs,
                   statusReqs, timers, mounted, alertOpen, lsmCalls,
                   geomVars, saVars>>

(***************************************************************************)
(* Ctrl+S or a click on the save indicator: handleSaveFile up to its       *)
(* await (App.vue:89-101).                                                 *)
(***************************************************************************)
SaveFile ==
    /\ mounted /\ Idle
    /\ IF handleSaveFileGuard
       THEN /\ ev' = EvPlain("saveSkip")
            /\ UNCHANGED <<isLoading, contentReqs>>
       ELSE /\ isLoading' = TRUE
            /\ contentReqs' =
                   Append(contentReqs,
                          Req("POST", "user",
                              [content |-> text, title |-> title]))
            /\ ev' = EvPlain("saveStart")
    /\ UNCHANGED <<text, title, saveState, lastSavedContent, watchPending,
                   statusReqs, timers, mounted, alertOpen, lsmCalls,
                   geomVars, saVars>>

(***************************************************************************)
(* A GET /api/content answers with ok and a JSON body (App.vue:68-80,      *)
(* 84-86), then the awaiting caller continues (App.vue:58, 206-208).       *)
(***************************************************************************)
LoadOk ==
    \E i \in 1..Len(contentReqs), d \in ResponseData :
        LET r == contentReqs[i]
            n == loadContentOk(d)
        IN  /\ Idle
            /\ r.method = "GET"
            /\ contentReqs' = RemoveAt(contentReqs, i)
            /\ title' = n.title
            /\ text' = n.text
            /\ lastSavedContent' = n.last
            /\ saveState' = n.saveState
            /\ watchPending' = (n.text # text)
            /\ isLoading' = loadContentFinally
            /\ timers' = IF r.caller = "checkLink"
                         THEN checkLinkReschedule("load") ELSE timers
            /\ syncPending' = (r.caller = "onMounted")
            /\ ev' = Ev("loadOk", r.caller, d, "none", r.pre)
            /\ UNCHANGED <<statusReqs, mounted, alertOpen, lsmCalls,
                           pageHeightPx, zoomVars, saVars>>

(***************************************************************************)
(* A GET /api/content fails: fetch rejects, the status is not ok, or the   *)
(* body is no JSON (App.vue:68, 81-86).                                    *)
(***************************************************************************)
LoadFail ==
    \E i \in 1..Len(contentReqs), o \in ContentOutcomes \ {"ok"} :
        LET r == contentReqs[i]
        IN  /\ Idle
            /\ r.method = "GET"
            /\ contentReqs' = RemoveAt(contentReqs, i)
            /\ saveState' = loadContentFail
            /\ alertOpen' = loadContentNotice
            /\ isLoading' = IF loadContentNotice THEN isLoading
                                                  ELSE loadContentFinally
            /\ timers' = IF r.caller = "checkLink"
                         THEN checkLinkReschedule("load") ELSE timers
            /\ syncPending' = (r.caller = "onMounted")
            /\ ev' = Ev("loadFail", r.caller, NoData, "none", r.pre)
            /\ UNCHANGED <<text, title, lastSavedContent, watchPending,
                           statusReqs, mounted, lsmCalls, pageHeightPx,
                           zoomVars, saVars>>

(***************************************************************************)
(* A POST /api/content answers with ok and a JSON body (App.vue:103-114,   *)
(* 118-120).                                                               *)
(***************************************************************************)
SaveOk ==
    \E i \in 1..Len(contentReqs), d \in ResponseData :
        LET r == contentReqs[i]
            n == handleSaveFileOk(d)
        IN  /\ Idle
            /\ r.method = "POST"
            /\ contentReqs' = RemoveAt(contentReqs, i)
            /\ text' = n.text
            /\ title' = n.title
            /\ lastSavedContent' = n.last
            /\ saveState' = n.saveState
            /\ watchPending' = (n.text # text)
            /\ isLoading' = handleSaveFileFinally
            /\ ev' = Ev("saveOk", r.caller, d, "none", r.pre)
            /\ UNCHANGED <<statusReqs, timers, mounted, alertOpen,
                           lsmCalls, geomVars, saVars>>

(***************************************************************************)
(* A POST /api/content fails (App.vue:103, 115-117): the catch block       *)
(* unlinks and opens the modal alert; finally waits for its dismissal.     *)
(***************************************************************************)
SaveFail ==
    \E i \in 1..Len(contentReqs), o \in ContentOutcomes \ {"ok"} :
        LET r == contentReqs[i]
            f == handleSaveFileFail
        IN  /\ Idle
            /\ r.method = "POST"
            /\ contentReqs' = RemoveAt(contentReqs, i)
            /\ saveState' = f.saveState
            /\ alertOpen' = f.alert
            /\ isLoading' = IF f.alert THEN isLoading
                                       ELSE handleSaveFileFinally
            /\ ev' = Ev("saveFail", r.caller, NoData, "none", r.pre)
            /\ UNCHANGED <<text, title, lastSavedContent, watchPending,
                           statusReqs, timers, mounted, lsmCalls,
                           geomVars, saVars>>

(***************************************************************************)
(* The user dismisses the alert; handleSaveFile's finally runs             *)
(* (App.vue:118-120).                                                      *)
(***************************************************************************)
DismissAlert ==
    /\ alertOpen
    /\ alertOpen' = FALSE
    /\ isLoading' = handleSaveFileFinally
    /\ ev' = EvPlain("dismiss")
    /\ UNCHANGED <<text, title, saveState, lastSavedContent, watchPending,
                   contentReqs, statusReqs, timers, mounted,
                   lsmCalls, geomVars, saVars>>

(***************************************************************************)
(* A GET /api/status answers ok (App.vue:195-203, 206-208).                *)
(***************************************************************************)
StatusOk ==
    /\ Idle
    /\ statusReqs > 0
    /\ statusReqs' = statusReqs - 1
    /\ IF checkLinkShouldLoad
       THEN /\ loadContentBegin("checkLink")
            /\ IF loadContentGuard
               THEN /\ timers' = checkLinkReschedule("skip")
                    /\ ev' = Ev("pollOk", "checkLink", NoData, "skipped",
                                NoPre)
               ELSE /\ timers' = timers
                    /\ ev' = Ev("pollOk", "checkLink", NoData, "issued",
                                NoPre)
       ELSE /\ timers' = checkLinkReschedule("noload")
            /\ ev' = Ev("pollOk", "checkLink", NoData, "none", NoPre)
            /\ UNCHANGED <<isLoading, contentReqs>>
    /\ UNCHANGED <<text, title, saveState, lastSavedContent, watchPending,
                   mounted, alertOpen, lsmCalls, geomVars, saVars>>

(***************************************************************************)
(* A GET /api/status fails: not ok (App.vue:196-199) or fetch rejects      *)
(* (App.vue:204-205).                                                      *)
(***************************************************************************)
StatusFail ==
    \E o \in StatusOutcomes \ {"ok"} :
        /\ Idle
        /\ statusReqs > 0
        /\ statusReqs' = statusReqs - 1
        /\ saveState' = checkLinkFail
        /\ timers' = checkLinkReschedule(o)
        /\ ev' = Ev("pollFail", "checkLink", NoData, "none", NoPre)
        /\ UNCHANGED <<text, title, lastSavedContent, isLoading,
                       watchPending, contentReqs, mounted, alertOpen,
                       lsmCalls, geomVars, saVars>>

(***************************************************************************)
(* A setTimeout(checkLink) timer fires: checkLink runs up to its fetch     *)
(* (App.vue:193-195).                                                      *)
(***************************************************************************)
TimerFire ==
    /\ Idle
    /\ timers > 0
    /\ timers' = timers - 1
    /\ statusReqs' = statusReqs + 1
    /\ ev' = EvPlain("pollStart")
    /\ UNCHANGED <<text, title, saveState, lastSavedContent, isLoading,
                   watchPending, contentReqs, mounted, alertOpen,
                   lsmCalls, geomVars, saVars>>

(***************************************************************************)
(* A deferred syncPageHeight() runs (App.vue:126-138): the continuation of *)
(* handleInput after nextTick() or of the mount hook after loadContent(),  *)
(* once the watcher job and the DOM update have been flushed.              *)
(***************************************************************************)
SyncFlush ==
    /\ syncPending /\ nextTickResolved /\ ~alertOpen
    /\ pageHeightPx' = syncPageHeight(ScrollHeight(text))
    /\ syncPending' = FALSE
    /\ ev' = EvSync(ScrollHeight(text))
    /\ UNCHANGED <<text, title, saveState, lastSavedContent, isLoading,
                   watchPending, contentReqs, statusReqs, timers, mounted,
                   alertOpen, lsmCalls, zoomVars, saVars>>

(***************************************************************************)
(* A beforeunload event reaches confirmLeave (App.vue:49-53, 56) and the   *)
(* document stays (the user declines to leave, or the navigation ends in   *)
(* a download).                                                            *)
(***************************************************************************)
BeforeUnload ==
    /\ mounted /\ Idle
    /\ ev' = EvPlain(IF confirmLeave(saveState)
                     THEN "leaveBlocked" ELSE "leaveAllowed")
    /\ UNCHANGED <<text, title, saveState, lastSavedContent, isLoading,
                   watchPending, contentReqs, statusReqs, timers, mounted,
                   alertOpen, lsmCalls, geomVars, saVars>>

(***************************************************************************)
(* The zoom controls inside the running editor (App.vue:146-157, 215,      *)
(* 249-253): Ctrl+wheel and the +/- buttons call changeZoomLevel with one  *)
(* step either way, a click on the indicator calls resetZoomLevel.         *)
(***************************************************************************)
ZoomTo(call, z) ==
    /\ mounted /\ Idle
    /\ zoomLevel' = z
    /\ ev' = EvPlain(call)
    /\ UNCHANGED <<text, title, saveState, lastSavedContent, isLoading,
                   watchPending, contentReqs, statusReqs, timers, mounted,
                   alertOpen, lsmCalls, pageVars, zoomTrail, saVars>>

HandleZoom ==
    \E delta \in ZoomDeltas :
        ZoomTo("zoom", changeZoomLevel(zoomLevel, delta))
HandleZoomReset == ZoomTo("zoomReset", resetZoomLevel)

Next ==
    \/ Mount
    \/ UserEdit
    \/ WatchFlush
    \/ SaveFile
    \/ LoadOk
    \/ LoadFail
    \/ SaveOk
    \/ SaveFail
    \/ DismissAlert
    \/ StatusOk
    \/ StatusFail
    \/ TimerFire
    \/ SyncFlush
    \/ BeforeUnload
    \/ HandleZoom
    \/ HandleZoomReset

Spec == Init /\ [][Next]_vars

(***************************************************************************)
(* The event loop serves every queued task and microtask, every fetch      *)
(* settles, and the user dismisses an alert.  Tasks are disabled while a   *)
(* watcher job or an alert is pending, hence strong fairness for them.     *)
(***************************************************************************)
FairSpec ==
    /\ Spec
    /\ WF_vars(WatchFlush)
    /\ WF_vars(DismissAlert)
    /\ SF_vars(StatusOk \/ StatusFail)
    /\ SF_vars(LoadOk \/ LoadFail)
    /\ SF_vars(SaveOk \/ SaveFail)
    /\ SF_vars(TimerFire)
    /\ WF_vars(SyncFlush)

(***************************************************************************)
(* The link state machine on its own: any sequence of its four calls,      *)
(* markLinked with the argument its call sites pass (App.vue:77, 111).     *)
(***************************************************************************)
LinkedArgs == {FALSE}

LsmStep(name, s) ==
    /\ Len(lsmCalls) < MaxCalls
    /\ saveState' = s
    /\ lsmCalls' = Append(lsmCalls, name)
    /\ UNCHANGED <<text, title, lastSavedContent, isLoading, watchPending,
                   contentReqs, statusReqs, timers, mounted, alertOpen, ev,
                   geomVars, saVars>>

LsmMarkLinked == \E d \in LinkedArgs : LsmStep("markLinked", markLinked(d))
LsmMarkUnlinked == LsmStep("markUnlinked", markUnlinked)
LsmMarkDirty == LsmStep("markDirty", markDirty(saveState))
LsmMarkSaved == LsmStep("markSaved", markSaved(saveState))

NextLSM ==
    \/ LsmMarkLinked
    \/ LsmMarkUnlinked
    \/ LsmMarkDirty
    \/ LsmMarkSaved

SpecLSM == Init /\ [][NextLSM]_vars

(***************************************************************************)
(* The zoom controls on their own (App.vue:146-157, 215, 249-253): the     *)
(* wheel and the +/- buttons call changeZoomLevel with one step either     *)
(* way, the indicator resets.  zoomTrail keeps the last ZoomTrailLen calls.*)
(***************************************************************************)
Push(trail, e) ==
    IF Len(trail) < ZoomTrailLen THEN Append(trail, e)
    ELSE Append(Tail(trail), e)

ZoomStepTo(call, delta, z) ==
    /\ zoomLevel' = z
    /\ zoomTrail' = Push(zoomTrail, [call |-> call, delta |-> delta,
                                     before |-> zoomLevel, after |-> z])
    /\ UNCHANGED <<text, title, saveState, lastSavedContent, isLoading,
                   watchPending, contentReqs, statusReqs, timers, mounted,
                   alertOpen, ev, lsmCalls, pageVars, saVars>>

ChangeZoom ==
    \E delta \in ZoomDeltas :
        ZoomStepTo("change", delta, changeZoomLevel(zoomLevel, delta))
ResetZoom == ZoomStepTo("reset", 0, resetZoomLevel)

NextZoom ==
    \/ ChangeZoom
    \/ ResetZoom

SpecZoom == Init /\ [][NextZoom]_vars

(***************************************************************************)
(* The standalone variant (src/unnamed/part_002): no server; the session   *)
(* starts from the title prompt or from a file, and the document leaves    *)
(* the editor as a local download.  Names are sequences of characters.     *)
(***************************************************************************)
MaxNameLen == 3

\* a letter, a blank, the dot, the two path separators and a colon
Chars == {"x", " ", ".", "/", "\\", ":"}

NamesOver(alphabet) ==
    UNION {[1..n -> alphabet] : n \in 0..MaxNameLen}

\* what the user types into prompt(): null (<<>>) on cancel, else <<input>>
PromptInputs == {<<>>} \cup {<<n>> : n \in NamesOver(Chars)}

\* File.name is the leaf name of a file: not empty, no "/" in it
FileNames == NamesOver(Chars \ {"/"}) \ {<<>>}

\* "新文档", one element per character
DEFAULT_TITLE == <<"xin", "wen", "dang">>

\* the character class of purifyFilename's regular expression
PurifiedChars == {"/", ":", "*", "?", "\"", "<", ">", "|"}

purifyFilename(raw) ==
    [i \in 1..Len(raw) |-> IF raw[i] \in PurifiedChars THEN "_" ELSE raw[i]]

\* String.prototype.trim
RECURSIVE Trim(_)
Trim(s) ==
    IF s = <<>> THEN s
    ELSE IF Head(s) = " " THEN Trim(Tail(s))
    ELSE IF s[Len(s)] = " " THEN Trim(SubSeq(s, 1, Len(s) - 1))
    ELSE s

\* name.replace(/\.[^/.]+$/, ""): cut the last dot and what follows it when
\* at least one character follows and none of them is "/" or "."
StripExt(name) ==
    LET ext == {i \in 1..Len(name) - 1 :
                   /\ name[i] = "."
                   /\ \A j \in i + 1..Len(name) : name[j] \notin {"/", "."}}
    IN  IF ext = {} THEN name
        ELSE SubSeq(name, 1, (CHOOSE i \in ext : TRUE) - 1)

requestTitle(input, initial, fallback) ==
    IF input = <<>> THEN <<>>
    ELSE LET placeholder == initial
             trimmed == Trim(input[1])
             finalValue == IF Len(trimmed) > 0 THEN trimmed ELSE fallback
         IN  <<purifyFilename(finalValue)>>

handleChangedTitle(input) ==
    LET value == requestTitle(input,
                              IF saTitle # <<>> THEN saTitle[1]
                                                ELSE DEFAULT_TITLE,
                              DEFAULT_TITLE)
    IN  IF value # <<>> THEN value ELSE saTitle

initWithDefaultFile_noCancelCheck(input) ==
    [hasInit |-> TRUE, text |-> <<"">>,
     title |-> requestTitle(input, DEFAULT_TITLE, DEFAULT_TITLE)]
initWithDefaultFile(input) ==
    LET result == requestTitle(input, DEFAULT_TITLE, DEFAULT_TITLE)
    IN  IF result = <<>>
        THEN [hasInit |-> saHasInit, text |-> saText, title |-> saTitle]
        ELSE [hasInit |-> TRUE, text |-> <<"">>, title |-> result]

initWithFile(name, result) ==
    LET rawName == StripExt(name)
        normalized == IF Trim(rawName) # <<>> THEN Trim(rawName)
                                              ELSE DEFAULT_TITLE
    IN  [hasInit |-> TRUE, text |-> <<result>>,
         title |-> <<purifyFilename(normalized)>>]

saConfirmLeave == saHasInit

downloadFilename ==
    LET trimmed == IF saTitle = <<>> THEN <<>> ELSE Trim(saTitle[1])
        safe == IF Len(trimmed) > 0 THEN trimmed ELSE DEFAULT_TITLE
    IN  safe \o <<".", "t", "x", "t">>

SaEv(op) == [op |-> op, name |-> <<>>]

\* the button of the start screen (part_002:50-60)
SaInitWithDefaultFile ==
    \E input \in PromptInputs :
        LET n == initWithDefaultFile(input)
        IN  /\ ~saHasInit
            /\ saHasInit' = n.hasInit
            /\ saText' = n.text
            /\ saTitle' = n.title
            /\ saEv' = SaEv(IF input = <<>> THEN "initCancel" ELSE "initDefault")
            /\ UNCHANGED webVars

\* reader.onload for a file picked on the start screen or dropped on the
\* page at any time (part_002:114-137, 205-210)
SaInitWithFile ==
    \E name \in FileNames, result \in Contents :
        LET n == initWithFile(name, result)
        IN  /\ saHasInit' = n.hasInit
            /\ saText' = n.text
            /\ saTitle' = n.title
            /\ saEv' = SaEv("initFile")
            /\ UNCHANGED webVars

\* a click on the title of the running editor (part_002:40-48)
SaHandleChangedTitle ==
    \E input \in PromptInputs :
        /\ saHasInit
        /\ saTitle' = handleChangedTitle(input)
        /\ saEv' = SaEv(IF input = <<>> THEN "titleCancel" ELSE "titleSet")
        /\ UNCHANGED <<saHasInit, saText, webVars>>

\* the textarea's v-model (part_002:257-260)
SaUserEdit ==
    \E c \in Contents :
        /\ saHasInit
        /\ saText' = <<c>>
        /\ saEv' = SaEv("edit")
        /\ UNCHANGED <<saHasInit, saTitle, webVars>>

\* handleSaveFile (part_002:83-110): the download gets downloadFilename
SaHandleSaveFile ==
    /\ saEv' = IF ~saHasInit THEN SaEv("exportSkip")
               ELSE [op |-> "export", name |-> <<downloadFilename>>]
    /\ UNCHANGED <<saHasInit, saText, saTitle, webVars>>

\* beforeunload reaches confirmLeave (part_002:62-69) and the page stays
SaBeforeUnload ==
    /\ saEv' = SaEv(IF saConfirmLeave THEN "leaveBlocked" ELSE "leaveAllowed")
    /\ UNCHANGED <<saHasInit, saText, saTitle, webVars>>

NextStandalone ==
    \/ SaInitWithDefaultFile
    \/ SaInitWithFile
    \/ SaHandleChangedTitle
    \/ SaUserEdit
    \/ SaHandleSaveFile
    \/ SaBeforeUnload

SpecStandalone == Init /\ [][NextStandalone]_vars

(***************************************************************************)
(* Reading a call history: which variant the state is in after it, and     *)
(* the most recent call that was not ignored.                              *)
(***************************************************************************)
RECURSIVE LinkedAfter(_)
LinkedAfter(h) ==
    IF h = <<>> THEN FALSE
    ELSE LET c == h[Len(h)]
         IN  IF c = "markLinked" THEN TRUE
             ELSE IF c = "markUnlinked" THEN FALSE
             ELSE LinkedAfter(SubSeq(h, 1, Len(h) - 1))

RECURSIVE LastApplicable(_)
LastApplicable(h) ==
    IF h = <<>> THEN "none"
    ELSE LET c == h[Len(h)]
             before == SubSeq(h, 1, Len(h) - 1)
         IN  IF c \in {"markLinked", "markUnlinked"} \/ LinkedAfter(before)
             THEN c
             ELSE LastApplicable(before)

(***************************************************************************)
(* Claims                                                                  *)
(***************************************************************************)
Unlinked == [type |-> "unlinked"]
LinkedClean == [type |-> "linked", dirty |-> FALSE]
PollLoads == {i \in DOMAIN contentReqs : contentReqs[i].caller = "checkLink"}

\* C1: at most one /api/content request (load or save) is in flight at any
\* moment; no request is issued while one is outstanding; a save or load
\* dropped by the guard changes no editor state, queues nothing and raises
\* no notice.
C1_SingleInFlight ==
    /\ [](Len(contentReqs) <= 1)
    /\ [][/\ Len(contentReqs) > 0 => Len(contentReqs') <= Len(contentReqs)
          /\ (ev'.op = "saveSkip" \/ ev'.load = "skipped") =>
                 /\ Len(contentReqs) > 0 \/ isLoading
                 /\ UNCHANGED <<text, title, saveState, lastSavedContent,
                                isLoading, watchPending, contentReqs,
                                alertOpen>>]_vars
C1_Witness ==
    /\ ev.op = "saveSkip"
    /\ Len(contentReqs) = 1
    /\ contentReqs[1].method = "GET"

\* C2: a successful poll-triggered load never overwrites a buffer that
\* differs from the Last-Saved Snapshot (unsaved edits are not clobbered).
C2_NoClobber ==
    [][(ev'.op = "loadOk" /\ ev'.caller = "checkLink") =>
           ~(text # lastSavedContent /\ text' # text)]_vars

\* C3: once the text watcher has run, while Linked the dirty flag is true
\* exactly when the buffer differs from the Last-Saved Snapshot.
C3_DirtyIffDiverged ==
    (~watchPending /\ isLinked(saveState)) =>
        (saveState.dirty <=> text # lastSavedContent)
C3_Witness ==
    /\ ev.op = "watch"
    /\ isLinked(saveState)
    /\ ~saveState.dirty
    /\ text = lastSavedContent
    /\ Len(contentReqs) = 0

\* C4: right after a successful load or save response the buffer and the
\* snapshot equal the server's content, the title is the server's title,
\* and Link State is Linked(false) if saved is true and Unlinked if not.
C4_ServerAuthoritative ==
    ev.op \in {"loadOk", "saveOk"} =>
        /\ text = ev.data.content
        /\ lastSavedContent = ev.data.content
        /\ title = <<ev.data.title>>
        /\ saveState = IF ev.data.saved THEN LinkedClean ELSE Unlinked
C4_Witness ==
    /\ ev.op = "saveOk"
    /\ watchPending
    /\ ~ev.data.saved

\* C5: a failed load leaves Link State Unlinked, raises no notice, and
\* leaves buffer, title and snapshot as they were; title and snapshot are
\* those of the moment the load was issued.
C5_LoadFailure ==
    [][ev'.op = "loadFail" =>
           /\ saveState' = Unlinked
           /\ ~alertOpen'
           /\ text' = text
           /\ title' = title /\ title' = ev'.pre.title
           /\ lastSavedContent' = lastSavedContent
           /\ lastSavedContent' = ev'.pre.last]_vars
C5_Witness ==
    /\ ev.op = "loadFail"
    /\ ev.caller = "checkLink"
    /\ text # lastSavedContent

\* C6: a failed save that had issued its request leaves Link State
\* Unlinked whatever it was, puts a failure notice on screen, and does not
\* modify buffer, title or snapshot.
C6_SaveFailure ==
    [][ev'.op = "saveFail" =>
           /\ saveState' = Unlinked
           /\ alertOpen'
           /\ text' = text
           /\ title' = title
           /\ lastSavedContent' = lastSavedContent]_vars
C6_Witness ==
    /\ ev.op = "saveFail"
    /\ alertOpen
    /\ text # lastSavedContent

\* C7: on a successful status response loadContent is called exactly when
\* Link State is Linked(false); otherwise no request is issued and buffer,
\* title, snapshot and Link State are untouched.
C7_PollSuccess ==
    [][ev'.op = "pollOk" =>
           /\ (saveState = LinkedClean) <=> (ev'.load # "none")
           /\ ev'.load = "issued" =>
                  /\ Len(contentReqs') = Len(contentReqs) + 1
                  /\ contentReqs'[Len(contentReqs')].method = "GET"
           /\ ev'.load = "none" => contentReqs' = contentReqs
           /\ UNCHANGED <<text, title, lastSavedContent, saveState>>]_vars
C7_Witness ==
    /\ ev.op = "pollOk"
    /\ ev.load = "none"
    /\ isDirty(saveState)

\* C8: once mounted, whatever the outcome of each poll, a next poll is
\* always eventually scheduled on the timer.
C8_PollNeverStalls == [](mounted => <>(timers > 0))
C8_Witness ==
    /\ ev.op = "pollOk"
    /\ ev.load = "skipped"
    /\ timers > 0

\* C9: at most one poll is scheduled on the timer or in flight (awaiting
\* its status response or its load); after mount there is exactly one.
C9_PollsNeverStack ==
    /\ timers + statusReqs + Cardinality(PollLoads) <= 1
    /\ mounted => timers + statusReqs + Cardinality(PollLoads) = 1
C9_Witness ==
    /\ ev.op = "pollOk"
    /\ ev.load = "skipped"
    /\ timers = 1

\* C10: after any sequence of markLinked/markUnlinked/markDirty/markSaved
\* calls, isDirty holds exactly when the state is Linked and the most
\* recent call that was not ignored was markDirty; it is false in Unlinked.
C10_IsDirty ==
    /\ isLinked(saveState) <=> LinkedAfter(lsmCalls)
    /\ isDirty(saveState) <=>
           (isLinked(saveState) /\ LastApplicable(lsmCalls) = "markDirty")
    /\ ~isLinked(saveState) => ~isDirty(saveState)
C10_Witness ==
    /\ Len(lsmCalls) = MaxCalls
    /\ lsmCalls[MaxCalls] = "markDirty"
    /\ lsmCalls[MaxCalls - 1] = "markSaved"
    /\ isDirty(saveState)

LinkedDirty == [type |-> "linked", dirty |-> TRUE]
LastCall == lsmCalls[Len(lsmCalls)]
LastZoom == zoomTrail[Len(zoomTrail)]
PrevZoom == zoomTrail[Len(zoomTrail) - 1]

\* C11: markDirty and markSaved called while Unlinked leave the state
\* Unlinked, and so does the text watcher for any new text and snapshot
\* (an edit made while Unlinked never changes Link State).
C11_NoOpWhenUnlinked ==
    /\ [][(/\ saveState = Unlinked
           /\ Len(lsmCalls') > Len(lsmCalls)
           /\ lsmCalls'[Len(lsmCalls')] \in {"markDirty", "markSaved"})
          => saveState' = Unlinked]_vars
    /\ [](saveState = Unlinked =>
              \A n \in Contents, l \in Contents :
                  watchText(saveState, n, l) = Unlinked)
C11_Witness ==
    /\ Len(lsmCalls) >= 2
    /\ LastCall = "markDirty"
    /\ lsmCalls[Len(lsmCalls) - 1] = "markUnlinked"
    /\ saveState = Unlinked

\* C12: while Linked, the watcher run that follows a user edit yields
\* Linked(true) if the buffer differs from the snapshot and Linked(false)
\* if it equals it; neither the edit nor that run issues a request or
\* changes the snapshot.
C12_EditReclassifies ==
    /\ [][(ev.op = "edit" /\ ev'.op = "watch" /\ isLinked(saveState)) =>
              /\ saveState' = IF text = lastSavedContent
                              THEN LinkedClean ELSE LinkedDirty
              /\ UNCHANGED <<text, lastSavedContent, contentReqs,
                             statusReqs>>]_vars
    /\ [][ev'.op = "edit" =>
              UNCHANGED <<saveState, lastSavedContent, contentReqs,
                          statusReqs>>]_vars
C12_Witness ==
    /\ ev.op = "watch"
    /\ ev.caller = "edit"
    /\ saveState = LinkedClean
    /\ text = lastSavedContent

\* C13: the leave warning predicate is true in Unlinked and Linked(true)
\* and false in Linked(false); confirmLeave prevents the beforeunload
\* event exactly when the predicate is true.
C13_LeaveWarning ==
    /\ saveState \in {Unlinked, LinkedClean, LinkedDirty}
    /\ shouldWarnOnLeave(saveState) <=> saveState \in {Unlinked, LinkedDirty}
    /\ ev.op \in {"leaveBlocked", "leaveAllowed"} =>
           (ev.op = "leaveBlocked" <=> saveState \in {Unlinked, LinkedDirty})
C13_Witness ==
    /\ ev.op = "leaveAllowed"
    /\ saveState = LinkedClean

\* C14: the zoom factor stays within [0.5, 3.0]; a changeZoom whose sum
\* leaves the range yields exactly the bound it crossed, and the same
\* delta applied again leaves zoom at that bound.
C14_ZoomClamped ==
    /\ ZoomMin <= zoomLevel /\ zoomLevel <= ZoomMax
    /\ \A i \in DOMAIN zoomTrail :
           LET e == zoomTrail[i]
           IN  e.call = "change" =>
                   /\ e.before + e.delta > ZoomMax => e.after = ZoomMax
                   /\ e.before + e.delta < ZoomMin => e.after = ZoomMin
    /\ \A i \in DOMAIN zoomTrail :
           /\ i > 1 => zoomTrail[i].before = zoomTrail[i - 1].after
           /\ i = Len(zoomTrail) => zoomTrail[i].after = zoomLevel
    /\ \A i \in DOMAIN zoomTrail :
           (/\ i > 1
            /\ zoomTrail[i].call = "change"
            /\ zoomTrail[i - 1].call = "change"
            /\ zoomTrail[i].delta = zoomTrail[i - 1].delta
            /\ zoomTrail[i - 1].after \in {ZoomMin, ZoomMax}
            /\ zoomTrail[i - 1].after # zoomTrail[i - 1].before
                                        + zoomTrail[i - 1].delta)
           => zoomTrail[i].after = zoomTrail[i - 1].after
C14_Witness ==
    /\ Len(zoomTrail) >= 2
    /\ LastZoom.call = "change" /\ LastZoom.delta = ZoomStep
    /\ PrevZoom.call = "change" /\ PrevZoom.delta = ZoomStep
    /\ LastZoom.before = ZoomMax
    /\ zoomLevel = ZoomMax

\* C15 as stated: from every reachable zoom value, changeZoom(+0.25)
\* followed by changeZoom(-0.25) returns zoom to the value before the pair.
C15_RoundTripAlways ==
    (/\ Len(zoomTrail) >= 2
     /\ PrevZoom.call = "change" /\ PrevZoom.delta = ZoomStep
     /\ LastZoom.call = "change" /\ LastZoom.delta = -ZoomStep)
    => zoomLevel = PrevZoom.before

\* C15 amended: from every reachable zoom value z with z + 0.25 <= 3.0,
\* changeZoom(+0.25) followed by changeZoom(-0.25) returns zoom to z.
C15_RoundTripBelowMax ==
    (/\ Len(zoomTrail) >= 2
     /\ PrevZoom.call = "change" /\ PrevZoom.delta = ZoomStep
     /\ LastZoom.call = "change" /\ LastZoom.delta = -ZoomStep
     /\ PrevZoom.before + ZoomStep <= ZoomMax)
    => zoomLevel = PrevZoom.before
C15_Witness ==
    /\ Len(zoomTrail) >= 2
    /\ PrevZoom.call = "change" /\ PrevZoom.delta = ZoomStep
    /\ LastZoom.call = "change" /\ LastZoom.delta = -ZoomStep
    /\ PrevZoom.before = ZoomMax - ZoomStep
    /\ zoomLevel = ZoomMax - ZoomStep

\* C16: the page height is never below the nominal height; right after a
\* syncPageHeight it is the nominal height if the measured height of the
\* current buffer is not above it (the empty buffer), else the measured
\* height.
C16_PageHeight ==
    /\ pageHeightPx >= HEIGHT
    /\ ev.op = "sync" =>
           /\ ev.h = ScrollHeight(text)
           /\ ev.h <= HEIGHT => pageHeightPx = HEIGHT
           /\ ev.h > HEIGHT => pageHeightPx = ev.h
           /\ text = "" => pageHeightPx = HEIGHT
C16_Witness ==
    /\ ev.op = "sync"
    /\ text = "b"
    /\ pageHeightPx > HEIGHT

\* C17: every change of the buffer is followed by a syncPageHeight that
\* measures the new content: once no watcher job and no deferred sync is
\* pending, the page height is the one of the current buffer.
C17_SyncFollowsContent ==
    (~watchPending /\ ~syncPending) =>
        pageHeightPx = Max(ScrollHeight(text), HEIGHT)

\* C18: an alert is on screen only right after a failed save; a failed
\* load or poll shows as Link State Unlinked and raises no alert, and no
\* skipped or successful operation raises one.
C18_NoticeOnlySaveFail ==
    /\ alertOpen => ev.op = "saveFail"
    /\ ev.op \in {"loadFail", "pollFail"} =>
           saveState = Unlinked /\ ~alertOpen
C18_Witness ==
    /\ ev.op = "loadFail"
    /\ ev.caller = "onMounted"
    /\ ~alertOpen

\* C19: a failed status poll leaves Link State Unlinked whatever it was
\* and whether or not a load or save is in flight, issues no request, and
\* leaves buffer, title and snapshot unchanged.
C19_PollFailure ==
    [][ev'.op = "pollFail" =>
           /\ saveState' = Unlinked
           /\ UNCHANGED <<text, title, lastSavedContent, contentReqs,
                          isLoading>>]_vars
C19_Witness ==
    /\ ev.op = "pollFail"
    /\ Len(contentReqs) = 1
    /\ contentReqs[1].method = "POST"

\* C20: Link State leaves Unlinked only by a successful load or save
\* response with saved = true, and then becomes Linked(false); edits and
\* poll outcomes keep it Unlinked, and a successful poll in Unlinked calls
\* no load.
C20_UnlinkedSticky ==
    /\ [][(saveState = Unlinked /\ saveState' # Unlinked) =>
              /\ ev'.op \in {"loadOk", "saveOk"}
              /\ ev'.data.saved
              /\ saveState' = LinkedClean]_vars
    /\ [][(saveState = Unlinked /\ ev'.op = "pollOk") =>
              ev'.load = "none" /\ contentReqs' = contentReqs]_vars
C20_Witness ==
    /\ ev.op = "watch"
    /\ ev.caller = "edit"
    /\ saveState = Unlinked
    /\ text # lastSavedContent

\* C21: a load or save that issued its request clears isLoading when its
\* response has arrived, on success and on failure alike, so the flag never
\* stays set; a call dropped by the guard leaves the flag set; and right
\* after a completed load or save the flag is clear.
C21_FlagCleared ==
    /\ isLoading ~> ~isLoading
    /\ [][(\/ ev'.op = "saveSkip"
           \/ ev'.op = "pollOk" /\ ev'.load = "skipped") =>
              isLoading /\ isLoading']_vars
    /\ [](ev.op \in {"loadOk", "loadFail", "saveOk", "dismiss"} => ~isLoading)
C21_Witness ==
    /\ ev.op = "dismiss"
    /\ ~isLoading
    /\ saveState = Unlinked

\* C22: the step after a user edit is the watch(text) job, and the
\* deferred syncPageHeight of that edit runs after it: when the sync runs the
\* Link State is already reclassified against the snapshot, and the height
\* it measures is that of the buffer as it is at that moment.
C22_ReclassifyBeforeSync ==
    /\ [][ev.op = "edit" => ev'.op = "watch" /\ ev'.caller = "edit"]_vars
    /\ [][ev'.op = "sync" =>
              /\ ~watchPending
              /\ isLinked(saveState) =>
                     isDirty(saveState) = (text # lastSavedContent)
              /\ UNCHANGED <<text, saveState, lastSavedContent>>
              /\ ev'.h = ScrollHeight(text')
              /\ pageHeightPx' = Max(ScrollHeight(text'), HEIGHT)]_vars
C22_Witness ==
    /\ ev.op = "sync"
    /\ ev.caller = "edit"
    /\ saveState = LinkedDirty
    /\ text = "b"
    /\ pageHeightPx = 2 * HEIGHT

\* C23: lastSavedContent changes only in the step of a successful load or
\* save response, where it becomes the content of that response; edits,
\* failed loads and saves, dropped calls, poll outcomes, zoom and geometry
\* steps leave it unchanged.
C23_SnapshotFrame ==
    /\ [][lastSavedContent' # lastSavedContent =>
              /\ ev'.op \in {"loadOk", "saveOk"}
              /\ lastSavedContent' = ev'.data.content]_vars
    /\ [][ev'.op \in {"edit", "watch", "loadFail", "saveFail", "saveSkip",
                      "saveStart", "dismiss", "pollOk", "pollFail",
                      "pollStart", "sync", "zoom", "zoomReset",
                      "leaveBlocked", "leaveAllowed"} =>
              lastSavedContent' = lastSavedContent]_vars
C23_Witness ==
    /\ ev.op = "saveFail"
    /\ lastSavedContent = "a"
    /\ text = "b"

\* the state a completed load of the store content d leaves behind
AsLoaded(d) ==
    /\ text = d.content
    /\ title = <<d.title>>
    /\ lastSavedContent = d.content
    /\ saveState = IF d.saved THEN LinkedClean ELSE Unlinked

\* C24: a successful load that finds buffer, title, snapshot and Link State
\* as a load of the same store content left them changes none of them and
\* queues no reclassification; the load issued at mount from the initial
\* state ends with the flag clear and no alert, leaving the store content
\* on success and Unlinked with buffer, title and snapshot untouched on
\* failure.
C24_LoadIdempotent ==
    /\ [][(ev'.op = "loadOk" /\ AsLoaded(ev'.data)) =>
              /\ UNCHANGED <<text, title, lastSavedContent, saveState>>
              /\ ~watchPending'
              /\ ~isLoading']_vars
    /\ [][(ev'.op = "loadOk" /\ ev'.caller = "onMounted") =>
              /\ ev'.pre = NoPre
              /\ text' = ev'.data.content
              /\ title' = <<ev'.data.title>>
              /\ lastSavedContent' = ev'.data.content
              /\ saveState' = IF ev'.data.saved THEN LinkedClean
                                                ELSE Unlinked
              /\ ~isLoading' /\ ~alertOpen']_vars
    /\ [][(ev'.op = "loadFail" /\ ev'.caller = "onMounted") =>
              /\ ev'.pre = NoPre
              /\ saveState' = Unlinked
              /\ UNCHANGED <<text, title, lastSavedContent>>
              /\ ~isLoading' /\ ~alertOpen']_vars
C24_Witness ==
    /\ ev.op = "loadOk"
    /\ ev.caller = "checkLink"
    /\ ev.pre = [title |-> <<ev.data.title>>, last |-> ev.data.content]
    /\ AsLoaded(ev.data)
    /\ ~watchPending
    /\ text = "a"

\* C25: only changeZoomLevel and resetZoomLevel change zoomLevel; they
\* leave buffer, title, Link State, snapshot and pageHeightPx unchanged; and
\* the page height a sync measures is that of the content alone, whatever
\* the zoom factor is.
C25_ZoomIndependent ==
    /\ [][zoomLevel' # zoomLevel => ev'.op \in {"zoom", "zoomReset"}]_vars
    /\ [][ev'.op \in {"zoom", "zoomReset"} =>
              UNCHANGED <<text, title, saveState, lastSavedContent,
                          pageHeightPx, syncPending, watchPending,
                          isLoading, contentReqs>>]_vars
    /\ [][ev'.op = "sync" =>
              /\ zoomLevel' = zoomLevel
              /\ pageHeightPx' = Max(ScrollHeight(text), HEIGHT)]_vars
C25_Witness ==
    /\ ev.op = "sync"
    /\ zoomLevel = ZoomMin
    /\ text = "b"
    /\ pageHeightPx = 2 * HEIGHT

\* C26: in the standalone variant text and title are null before the
\* session starts and non-null whenever hasInit holds; a cancelled title
\* prompt on the start screen leaves the session unstarted and text and
\* title as they were; before the session starts handleSaveFile exports
\* nothing and confirmLeave does not block leaving.
C26_NeverNullOnceStarted ==
    /\ [](saHasInit => saText # <<>> /\ saTitle # <<>>)
    /\ [](~saHasInit => saText = <<>> /\ saTitle = <<>>)
    /\ [][saEv'.op = "initCancel" =>
              ~saHasInit' /\ UNCHANGED <<saText, saTitle>>]_vars
    /\ [][(~saHasInit /\ saEv'.op \in {"export", "exportSkip"}) =>
              /\ saEv' = SaEv("exportSkip")
              /\ UNCHANGED <<saHasInit, saText, saTitle>>]_vars
    /\ [][(~saHasInit /\ saEv'.op \in {"leaveBlocked", "leaveAllowed"}) =>
              saEv'.op = "leaveAllowed"]_vars
C26_Witness ==
    /\ saEv.op = "initDefault"
    /\ saHasInit
    /\ saText = <<"">>
    /\ saTitle = <<DEFAULT_TITLE>>

\* the path separators and the characters file systems reserve
SeparatorOrReserved == {"/", "\\", ":", "*", "?", "\"", "<", ">", "|"}

\* C27: the name handed to the download is the title followed by ".txt",
\* holds no path separator and no reserved character, and its base is never
\* blank: a blank or whitespace-only title gives the default title.
C27_ExportNameClean ==
    saEv.op = "export" =>
        LET name == saEv.name[1]
            base == SubSeq(name, 1, Len(name) - 4)
        IN  /\ SubSeq(name, Len(name) - 3, Len(name)) = <<".", "t", "x", "t">>
            /\ base # <<>> /\ Trim(base) = base
            /\ \A i \in 1..Len(name) : name[i] \notin SeparatorOrReserved

====
